---- MODULE Spec2Model ----
(***************************************************************************)
(* CNN structure visualizer: the full-image convolution (applyConvolution),*)
(* the 4x4 patch forward pass of StructureVisualizer, the debounced        *)
(* processing effect, the kernel editor, the view controls and the patch   *)
(* selection of App, and the AI panel of App with geminiService.           *)
(*                                                                         *)
(* Numbers.  JavaScript numbers are modelled as exact rationals n/d with   *)
(* an integer numerator and a positive integer denominator.  A kernel is a *)
(* record [w |-> 3x3 matrix of integer numerators, den |-> denominator],   *)
(* so Box Blur (1/9 everywhere) is the all-ones matrix over den 9.  For    *)
(* the kernels used here (denominators 1, 2 and 9) the value stored in a   *)
(* Uint8ClampedArray is the same for the exact rational and for the IEEE   *)
(* double the code computes: dyadic values are exact, and a multiple of    *)
(* 1/9, 1/3 or 1/27 is never within rounding error of a half-integer.      *)
(***************************************************************************)
EXTENDS Integers, Sequences, FiniteSets, TLC

VARIABLES
    \* ---- applyConvolution (one call) ----
    cvImageData,    \* the imageData argument: [width, height, data]
    cvKernel,       \* the kernel argument
    cvOptions,      \* the options argument
    cvRaw,          \* r,g,b accumulated by the kernel loop, per pixel
    cvOutput,       \* the local Uint8ClampedArray `output`
    cvResult,       \* the returned ImageData, or NoImage before the return
    cvPc,           \* position in the function body
    \* ---- StructureVisualizer (one render) ----
    inputPatch,     \* prop inputPatch: 4x4 grayscale values
    pvKernel,       \* prop kernel
    pvUseReLU,      \* prop useReLU
    pvPoolingMode,  \* prop poolingMode
    featureMap,     \* useMemo featureMap: [map, rawMap], numerators over kernel.den
    pooledValue,    \* useMemo pooledValue: the number n/d
    flatVector,     \* useMemo flatVector: four numbers n/d
    logits,         \* useMemo logits: four numbers n/d
    probabilities,  \* useMemo probabilities: four numbers n/d
    pvPc,           \* the last stage computed in this render
    \* ---- App ----
    imageSrc,           \* useState imageSrc
    kernel,             \* useState kernel
    kernelRef,          \* which array `kernel` is: i for PRESET_KERNELS[i].matrix, 0 for a fresh one
    options,            \* useState options
    processedImageData, \* useState processedImageData (NoImage: undefined)
    isProcessing,       \* useState isProcessing
    selectedPatch,      \* useState selectedPatch
    explanation,        \* useState explanation
    timer,              \* the armed 50 ms timer of the processing effect, with its closure
    loading,            \* started runs whose image has not loaded yet, in start order
    deferred,           \* runs waiting for their 10 ms callback, in onload order
    sourceCanvas,       \* sourceCanvasRef.current: the one shared canvas
    displayCanvas,      \* canvasRef.current of the input ImageDisplay
    displayLoading,     \* sources the input ImageDisplay is loading
    changes,            \* number of user events so far (bounded by MaxChanges)
    poolingMode,        \* useState poolingMode
    viewMode,           \* useState viewMode
    showAiPanel,        \* useState showAiPanel
    presetKernels,      \* the matrix arrays of PRESET_KERNELS, as they are now
    \* ---- AI panel of App and geminiService ----
    apiKey,             \* module constant apiKey = process.env.API_KEY ("" when not set)
    aiPrompt,           \* useState aiPrompt
    aiLoading,          \* useState aiLoading
    aiCalls             \* handleAiGenerate / handleAiExplain calls not finished yet

cvVars == <<cvImageData, cvKernel, cvOptions, cvRaw, cvOutput, cvResult, cvPc>>

pvVars == <<inputPatch, pvKernel, pvUseReLU, pvPoolingMode, featureMap, pooledValue,
            flatVector, logits, probabilities, pvPc>>

appVars == <<imageSrc, kernel, kernelRef, options, processedImageData, isProcessing,
             selectedPatch, explanation, timer, loading, deferred, sourceCanvas,
             displayCanvas, displayLoading, changes, poolingMode, viewMode,
             showAiPanel, presetKernels>>

aiVars == <<apiKey, aiPrompt, aiLoading, aiCalls>>

vars == <<cvVars, pvVars, appVars, aiVars>>

----------------------------------------------------------------------------
(* Bounds of the model.                                                    *)

MaxW == 3
MaxH == 3
MaxChanges == 2     \* user events (upload, preset, cell edit, option toggle, hover) in one run of App
MaxMouse == 2       \* largest canvas coordinate the pointer is moved to
MaxRuns == 2        \* processing runs in flight at once
MaxCalls == 2       \* AI calls in flight at once
ExpGrid == 4        \* Math.exp(0) on the grid 1..ExpGrid that stands for the range (0, 1]

----------------------------------------------------------------------------
(* Small helpers.                                                          *)

Max2(a, b) == IF a >= b THEN a ELSE b
Min2(a, b) == IF a <= b THEN a ELSE b
Abs(v) == IF v < 0 THEN -v ELSE v

Row3(a, b, c) == [j \in 0..2 |-> IF j = 0 THEN a ELSE IF j = 1 THEN b ELSE c]
Mat3(r0, r1, r2) == [i \in 0..2 |-> IF i = 0 THEN r0 ELSE IF i = 1 THEN r1 ELSE r2]

NoImage == [width |-> -1, height |-> -1, data |-> <<>>]

----------------------------------------------------------------------------
(* constants.ts                                                            *)

IDENTITY_KERNEL ==
    [w |-> Mat3(Row3(0, 0, 0), Row3(0, 1, 0), Row3(0, 0, 0)), den |-> 1]

PRESET_KERNELS == <<
    [name |-> "Edge Detection (Sobel Horizontal)",
     matrix |-> [w |-> Mat3(Row3(-1, -2, -1), Row3(0, 0, 0), Row3(1, 2, 1)), den |-> 1],
     description |-> "Detects horizontal edges by calculating the gradient in the Y direction."],
    [name |-> "Edge Detection (Sobel Vertical)",
     matrix |-> [w |-> Mat3(Row3(-1, 0, 1), Row3(-2, 0, 2), Row3(-1, 0, 1)), den |-> 1],
     description |-> "Detects vertical edges by calculating the gradient in the X direction."],
    [name |-> "Edge Detection (Laplacian)",
     matrix |-> [w |-> Mat3(Row3(0, 1, 0), Row3(1, -4, 1), Row3(0, 1, 0)), den |-> 1],
     description |-> "Detects edges in all directions by approximating the second derivative."],
    [name |-> "Sharpen",
     matrix |-> [w |-> Mat3(Row3(0, -1, 0), Row3(-1, 5, -1), Row3(0, -1, 0)), den |-> 1],
     description |-> "Enhances the differences between adjacent pixels."],
    [name |-> "Box Blur",
     matrix |-> [w |-> Mat3(Row3(1, 1, 1), Row3(1, 1, 1), Row3(1, 1, 1)), den |-> 9],
     description |-> "Averages neighboring pixels to reduce noise and detail."],
    [name |-> "Emboss",
     matrix |-> [w |-> Mat3(Row3(-2, -1, 0), Row3(-1, 1, 1), Row3(0, 1, 2)), den |-> 1],
     description |-> "Creates a 3D shadow effect."]
>>

PresetMatrices == {PRESET_KERNELS[i].matrix : i \in 1..Len(PRESET_KERNELS)}

(* Kernels a user types into the grid: 0.5 in the centre, -1 in the centre. *)
HalfKernel ==
    [w |-> Mat3(Row3(0, 0, 0), Row3(0, 1, 0), Row3(0, 0, 0)), den |-> 2]
NegKernel ==
    [w |-> Mat3(Row3(0, 0, 0), Row3(0, -1, 0), Row3(0, 0, 0)), den |-> 1]

Kernels == PresetMatrices \cup {IDENTITY_KERNEL, HalfKernel, NegKernel}

AllOptions == [useGrayscale : BOOLEAN, useReLU : BOOLEAN, normalize : BOOLEAN]

----------------------------------------------------------------------------
(* Input images: RGBA pixels of a palette laid out by a linear pattern     *)
(* (flat images, stripes, gradients, checkerboards), every size from 0x0   *)
(* to MaxW x MaxH.  data is the flat RGBA array, indexed from 0.           *)

Palette == <<
    <<0, 0, 0, 255>>,
    <<255, 255, 255, 255>>,
    <<200, 30, 91, 128>>,
    <<7, 250, 64, 0>>
>>

PalLen == Len(Palette)

MakeImage(pal, w, h, a, b, c) ==
    [width |-> w, height |-> h,
     data |-> [i \in 0..(4 * w * h - 1) |->
                 LET p == i \div 4
                     x == p % w
                     y == p \div w
                 IN pal[((a * x + b * y + c) % Len(pal)) + 1][(i % 4) + 1]]]

Images ==
    {MakeImage(Palette, w, h, a, b, c) :
        w \in 0..MaxW, h \in 0..MaxH, a \in 0..(PalLen - 1),
        b \in 0..(PalLen - 1), c \in 0..(PalLen - 1)}

----------------------------------------------------------------------------
(* applyConvolution                                                        *)

(* A store into a Uint8Array instead: truncate, then wrap modulo 256.       *)
ToUint8Clamp_Wrap(n, d) ==
    (n \div d) % 256

(* Storing the number n/d (d > 0) into a Uint8ClampedArray element: clamp   *)
(* to [0,255], round to the nearest integer, ties to the even one.          *)
ToUint8Clamp(n, d) ==
    IF n <= 0 THEN 0
    ELSE IF n >= 255 * d THEN 255
    ELSE LET f == n \div d
             twice == 2 * (n - f * d)
         IN IF twice < d THEN f
            ELSE IF twice > d THEN f + 1
            ELSE IF f % 2 = 0 THEN f ELSE f + 1

(* The kernel loop with g and b reading the red byte (pixelIndex for all    *)
(* three channels).                                                         *)
KernelLoop_CopyPaste(input, width, height, kern, x, y, ch) ==
    LET Term(i) ==
            LET ky == (i \div 3) - 1
                kx == (i % 3) - 1
                py == y + ky
                px == x + kx
            IN IF px >= 0 /\ px < width /\ py >= 0 /\ py < height
                 THEN input[(py * width + px) * 4] * kern.w[ky + 1][kx + 1]
                 ELSE 0
    IN Term(0) + Term(1) + Term(2) + Term(3) + Term(4)
       + Term(5) + Term(6) + Term(7) + Term(8)

(* The kernel loop with the bounds check made on the flat index only, so    *)
(* that a neighbour left of column 0 is read from the end of the row above. *)
KernelLoop_Wrap(input, width, height, kern, x, y, ch) ==
    LET Term(i) ==
            LET ky == (i \div 3) - 1
                kx == (i % 3) - 1
                py == y + ky
                px == x + kx
                pixelIndex == (py * width + px) * 4
            IN IF pixelIndex >= 0 /\ pixelIndex < 4 * width * height
                 THEN input[pixelIndex + ch] * kern.w[ky + 1][kx + 1]
                 ELSE 0
    IN Term(0) + Term(1) + Term(2) + Term(3) + Term(4)
       + Term(5) + Term(6) + Term(7) + Term(8)

(* The kernel loop for channel ch of output pixel (x, y): Term(i) is what   *)
(* the i-th of the nine (ky, kx) iterations adds; the result is the         *)
(* numerator over kern.den.                                                 *)
KernelLoop(input, width, height, kern, x, y, ch) ==
    LET Term(i) ==
            LET ky == (i \div 3) - 1
                kx == (i % 3) - 1
                py == y + ky
                px == x + kx
            IN IF px >= 0 /\ px < width /\ py >= 0 /\ py < height
                 THEN input[(py * width + px) * 4 + ch] * kern.w[ky + 1][kx + 1]
                 ELSE 0
    IN Term(0) + Term(1) + Term(2) + Term(3) + Term(4)
       + Term(5) + Term(6) + Term(7) + Term(8)

(* The activation of StructureVisualizer used here: without ReLU the signed *)
(* value passes through.                                                    *)
Activate_Signed(v, useReLU) == IF useReLU THEN Max2(0, v) ELSE v

(* Step 1 of the post-processing: ReLU, or the absolute value.              *)
Activate(v, useReLU) == IF useReLU THEN Max2(0, v) ELSE Abs(v)

(* Post-processing with a perceptual luminance (0.299, 0.587, 0.114) in     *)
(* place of the three-way average.                                          *)
PostProcess_Luma(raw, den, opt) ==
    LET r == IF opt.useReLU THEN Max2(0, raw[1]) ELSE Abs(raw[1])
        g == IF opt.useReLU THEN Max2(0, raw[2]) ELSE Abs(raw[2])
        b == IF opt.useReLU THEN Max2(0, raw[3]) ELSE Abs(raw[3])
        y == 299 * r + 587 * g + 114 * b
    IN IF opt.useGrayscale
         THEN [r |-> y, g |-> y, b |-> y, d |-> 1000 * den]
         ELSE [r |-> r, g |-> g, b |-> b, d |-> den]

(* Steps 1 and 2 for one pixel: from the raw numerators <<r, g, b>> over    *)
(* den to the numbers handed to the store, [r, g, b] numerators over d.     *)
PostProcess(raw, den, opt) ==
    LET r == Activate(raw[1], opt.useReLU)
        g == Activate(raw[2], opt.useReLU)
        b == Activate(raw[3], opt.useReLU)
    IN IF opt.useGrayscale
         THEN [r |-> r + g + b, g |-> r + g + b, b |-> r + g + b, d |-> 3 * den]
         ELSE [r |-> r, g |-> g, b |-> b, d |-> den]

(* The r, g, b the kernel loop leaves for every pixel p = y * width + x.    *)
RawOf(img, kern) ==
    [p \in 0..(img.width * img.height - 1) |->
        LET x == p % img.width
            y == p \div img.width
        IN <<KernelLoop(img.data, img.width, img.height, kern, x, y, 0),
             KernelLoop(img.data, img.width, img.height, kern, x, y, 1),
             KernelLoop(img.data, img.width, img.height, kern, x, y, 2)>>]

(* The four stores of one pixel: element i of `output` after the pixel loop.*)
StorePixel(raw, den, opt, c) ==
    LET v == PostProcess(raw, den, opt)
    IN IF c = 0 THEN ToUint8Clamp(v.r, v.d)
       ELSE IF c = 1 THEN ToUint8Clamp(v.g, v.d)
       ELSE IF c = 2 THEN ToUint8Clamp(v.b, v.d)
       ELSE 255

(* `output` after the pixel loop; its length is input.length.               *)
ConvolvePass(img, kern, opt, raw) ==
    [i \in DOMAIN img.data |-> StorePixel(raw[i \div 4], kern.den, opt, i % 4)]

(* The min / max scan of the normalize pass over pixels 0..n-1.             *)
RECURSIVE ScanMin(_, _)
ScanMin(out, n) ==
    IF n = 0 THEN 255
    ELSE LET i == 4 * (n - 1)
         IN Min2(Min2(ScanMin(out, n - 1), out[i]), Min2(out[i + 1], out[i + 2]))

RECURSIVE ScanMax(_, _)
ScanMax(out, n) ==
    IF n = 0 THEN 0
    ELSE LET i == 4 * (n - 1)
         IN Max2(Max2(ScanMax(out, n - 1), out[i]), Max2(out[i + 1], out[i + 2]))

(* The normalize pass with a minimum and a maximum per channel.             *)
NormalizePass_PerChannel(out) ==
    LET Of(c) == {out[i] : i \in {k \in DOMAIN out : k % 4 = c}}
        Lo(c) == IF Of(c) = {} THEN 255 ELSE CHOOSE m \in Of(c) : \A v \in Of(c) : m <= v
        Hi(c) == IF Of(c) = {} THEN 0 ELSE CHOOSE m \in Of(c) : \A v \in Of(c) : m >= v
    IN [i \in DOMAIN out |->
          IF i % 4 = 3 \/ Hi(i % 4) - Lo(i % 4) <= 0 THEN out[i]
          ELSE ToUint8Clamp((out[i] - Lo(i % 4)) * 255, Hi(i % 4) - Lo(i % 4))]

(* The normalize pass dividing by max instead of by max - min.              *)
NormalizePass_DivByMax(out) ==
    LET n == Cardinality(DOMAIN out) \div 4
        min == ScanMin(out, n)
        max == ScanMax(out, n)
        range == max - min
    IN IF range > 0
         THEN [i \in DOMAIN out |->
                 IF i % 4 = 3 THEN out[i]
                 ELSE ToUint8Clamp((out[i] - min) * 255, max)]
         ELSE out

(* The normalize pass over `output` (taken only when options.normalize).    *)
NormalizePass(out) ==
    LET n == Cardinality(DOMAIN out) \div 4
        min == ScanMin(out, n)
        max == ScanMax(out, n)
        range == max - min
    IN IF range > 0
         THEN [i \in DOMAIN out |->
                 IF i % 4 = 3 THEN out[i]
                 ELSE ToUint8Clamp((out[i] - min) * 255, range)]
         ELSE out

(* The whole function, as its callers use it.                               *)
applyConvolution(img, kern, opt) ==
    LET out == ConvolvePass(img, kern, opt, RawOf(img, kern))
    IN [width |-> img.width, height |-> img.height,
        data |-> IF opt.normalize THEN NormalizePass(out) ELSE out]

----------------------------------------------------------------------------
(* One call of applyConvolution, step by step.                             *)

EmptyBuffer == [i \in {} |-> 0]

(* The call's variables while another component is being run.              *)
CvIdle ==
    /\ cvImageData = NoImage
    /\ cvKernel = IDENTITY_KERNEL
    /\ cvOptions = [useGrayscale |-> FALSE, useReLU |-> FALSE, normalize |-> FALSE]
    /\ cvRaw = EmptyBuffer
    /\ cvOutput = EmptyBuffer
    /\ cvResult = NoImage
    /\ cvPc = "idle"

CvCall ==
    /\ cvImageData \in Images
    /\ cvKernel \in Kernels
    /\ cvOptions \in AllOptions
    /\ cvRaw = EmptyBuffer
    /\ cvOutput = EmptyBuffer
    /\ cvResult = NoImage
    /\ cvPc = "start"

(* Lines 13-81: allocate `output`, run the pixel loop.                      *)
CvPixelLoop ==
    /\ cvPc = "start"
    /\ cvRaw' = RawOf(cvImageData, cvKernel)
    /\ cvOutput' = ConvolvePass(cvImageData, cvKernel, cvOptions, cvRaw')
    /\ cvPc' = "stored"
    /\ UNCHANGED <<cvImageData, cvKernel, cvOptions, cvResult>>
    /\ UNCHANGED <<pvVars, appVars, aiVars>>

(* Lines 84-99: the normalize pass.                                         *)
CvNormalize ==
    /\ cvPc = "stored"
    /\ cvOptions.normalize
    /\ cvOutput' = NormalizePass(cvOutput)
    /\ cvPc' = "normalized"
    /\ UNCHANGED <<cvImageData, cvKernel, cvOptions, cvRaw, cvResult>>
    /\ UNCHANGED <<pvVars, appVars, aiVars>>

(* Line 101: return new ImageData(output, width, height).  The platform's  *)
(* ImageData(data, sw, sh) constructor accepts data only when its length is *)
(* a nonzero multiple of four (HTML Standard, "InvalidStateError").         *)
CvReturn ==
    /\ \/ cvPc = "stored" /\ ~cvOptions.normalize
       \/ cvPc = "normalized"
    /\ Cardinality(DOMAIN cvOutput) # 0
    /\ cvResult' = [width |-> cvImageData.width, height |-> cvImageData.height,
                    data |-> cvOutput]
    /\ cvPc' = "returned"
    /\ UNCHANGED <<cvImageData, cvKernel, cvOptions, cvRaw, cvOutput>>
    /\ UNCHANGED <<pvVars, appVars, aiVars>>

(* Line 101 when `output` is empty: the constructor throws, nothing is      *)
(* returned.                                                                *)
CvThrow ==
    /\ \/ cvPc = "stored" /\ ~cvOptions.normalize
       \/ cvPc = "normalized"
    /\ Cardinality(DOMAIN cvOutput) = 0
    /\ cvPc' = "threw"
    /\ UNCHANGED <<cvImageData, cvKernel, cvOptions, cvRaw, cvOutput, cvResult>>
    /\ UNCHANGED <<pvVars, appVars, aiVars>>

----------------------------------------------------------------------------
(* StructureVisualizer: the forward pass over one 4x4 patch.               *)

Row4(a, b, c, d) ==
    [j \in 0..3 |-> IF j = 0 THEN a ELSE IF j = 1 THEN b ELSE IF j = 2 THEN c ELSE d]

ZeroPatch == [i \in 0..3 |-> Row4(0, 0, 0, 0)]

(* Patches: grayscale values laid out by a linear pattern.                  *)
PatchValues == <<0, 128, 255, 37>>

MakePatch(a, b, c) ==
    [i \in 0..3 |-> [j \in 0..3 |->
        PatchValues[((a * i + b * j + c) % Len(PatchValues)) + 1]]]

Patches ==
    {MakePatch(a, b, c) :
        a \in 0..(Len(PatchValues) - 1), b \in 0..(Len(PatchValues) - 1),
        c \in 0..(Len(PatchValues) - 1)}

(* 'max' | 'average' of types.ts, and a value outside the type.             *)
PoolingModes == {"max", "average", "median"}

(* inputPatch[i]?.[j] || 0                                                  *)
PatchAt(patch, i, j) ==
    IF i \in DOMAIN patch /\ j \in DOMAIN patch[i] THEN patch[i][j] ELSE 0

(* The activation that never clips.                                         *)
PatchActivate_NoClip(sum, relu) == sum

(* The activation with the absolute value of applyConvolution.              *)
PatchActivate_Abs(sum, relu) == IF relu THEN Max2(0, sum) ELSE Abs(sum)

(* useReLU ? Math.max(0, sum) : sum                                         *)
PatchActivate(sum, relu) == IF relu THEN Max2(0, sum) ELSE sum

(* The ky, kx loops for output position (y, x): the numerator over kern.den.*)
PatchSum(patch, kern, y, x) ==
    LET Term(i) == PatchAt(patch, y + (i \div 3), x + (i % 3))
                   * kern.w[i \div 3][i % 3]
    IN Term(0) + Term(1) + Term(2) + Term(3) + Term(4)
       + Term(5) + Term(6) + Term(7) + Term(8)

FeatureMapOf(patch, kern, relu) ==
    [rawMap |-> [y \in 0..1 |-> [x \in 0..1 |-> PatchSum(patch, kern, y, x)]],
     map |-> [y \in 0..1 |-> [x \in 0..1 |->
                 PatchActivate(PatchSum(patch, kern, y, x), relu)]]]

(* The 'average' branch without the division by four.                      *)
PooledValueOf_NoDivide(fm, den, mode) ==
    LET vals == <<fm.map[0][0], fm.map[0][1], fm.map[1][0], fm.map[1][1]>>
    IN IF mode = "max"
         THEN [n |-> Max2(Max2(vals[1], vals[2]), Max2(vals[3], vals[4])), d |-> den]
       ELSE IF mode = "average"
         THEN [n |-> vals[1] + vals[2] + vals[3] + vals[4], d |-> den]
       ELSE [n |-> vals[1], d |-> den]

(* The pooled number n/d of the four activated values (numerators over den).*)
PooledValueOf(fm, den, mode) ==
    LET vals == <<fm.map[0][0], fm.map[0][1], fm.map[1][0], fm.map[1][1]>>
    IN IF mode = "max"
         THEN [n |-> Max2(Max2(vals[1], vals[2]), Max2(vals[3], vals[4])), d |-> den]
       ELSE IF mode = "average"
         THEN [n |-> vals[1] + vals[2] + vals[3] + vals[4], d |-> 4 * den]
       ELSE [n |-> vals[1], d |-> den]

(* The JavaScript % on a / 1 and b / 1 with b > 0: the remainder of the     *)
(* division truncated toward zero, so the result has the sign of a.         *)
JsRemainder(a, b) == IF a >= 0 THEN a % b ELSE -((-a) % b)

(* flatVector with a floored modulo for v3 (always in [0, 255)).            *)
FlatVectorOf_FlooredMod(p) ==
    <<[n |-> p.n, d |-> p.d],
      [n |-> Abs(255 * p.d - p.n), d |-> p.d],
      [n |-> (3 * p.n) % (255 * 2 * p.d), d |-> 2 * p.d],
      [n |-> p.n, d |-> 2 * p.d]>>

(* [v1, v2, v3, v4] for the pooled number p = p.n / p.d:                    *)
(*   v1 = p, v2 = Math.abs(255 - p), v3 = (p * 1.5) % 255, v4 = p / 2.      *)
(* p * 1.5 is 3 p.n / (2 p.d), and its remainder by 255 = 510 p.d / (2 p.d).*)
FlatVectorOf(p) ==
    <<[n |-> p.n, d |-> p.d],
      [n |-> Abs(255 * p.d - p.n), d |-> p.d],
      [n |-> JsRemainder(3 * p.n, 255 * 2 * p.d), d |-> 2 * p.d],
      [n |-> p.n, d |-> 2 * p.d]>>

(* The dense layer: fcWeights[i][c] (input i, class c) in tenths, fcBiases. *)
fcWeights ==
    [w |-> << <<8, -5, 2, 1>>,
              <<-4, 9, -1, -3>>,
              <<5, -2, 8, 2>>,
              <<1, 3, 1, 9>> >>,
     den |-> 10]

fcBiases == <<10, -5, 0, 5>>

(* The dense layer reading the weight matrix transposed.                    *)
LogitsOf_Transposed(flat) ==
    LET D == flat[4].d
        Term(i, c) == flat[i].n * (D \div flat[i].d) * fcWeights.w[c][i]
    IN [c \in 1..4 |->
          [n |-> fcBiases[c] * fcWeights.den * D
                 + Term(1, c) + Term(2, c) + Term(3, c) + Term(4, c),
           d |-> fcWeights.den * D]]

(* logits[c] = fcBiases[c] + sum over i of flatVector[i] * fcWeights[i][c], *)
(* as numerators over 10 * D, D the denominator of v4 (every entry's        *)
(* denominator divides it).                                                 *)
LogitsOf(flat) ==
    LET D == flat[4].d
        Term(i, c) == flat[i].n * (D \div flat[i].d) * fcWeights.w[i][c]
    IN [c \in 1..4 |->
          [n |-> fcBiases[c] * fcWeights.den * D
                 + Term(1, c) + Term(2, c) + Term(3, c) + Term(4, c),
           d |-> fcWeights.den * D]]

(* l1 < l2, l1 = l2 for two numbers n/d with positive denominators.         *)
NumLess(l1, l2) == l1.n * l2.d < l2.n * l1.d
NumEq(l1, l2) == l1.n * l2.d = l2.n * l1.d

(* Math.exp((l - maxLogit) / 100) for the four logits.  The exponential is  *)
(* not a rational function, so exps ranges over every vector of numerators  *)
(* over ExpGrid that the exponential's order properties allow: the largest  *)
(* logit gives exp(0) = 1, every other one a positive number at most 1,     *)
(* and a smaller logit never gives a larger number.                         *)
ExpsOf(lg) ==
    {e \in [1..4 -> 1..ExpGrid] :
        /\ \A c \in 1..4 : (\A k \in 1..4 : ~NumLess(lg[c], lg[k])) => e[c] = ExpGrid
        /\ \A c, k \in 1..4 : NumLess(lg[c], lg[k]) => e[c] <= e[k]
        /\ \A c, k \in 1..4 : NumEq(lg[c], lg[k]) => e[c] = e[k]}

(* The softmax dividing by the largest exponential instead of the sum.      *)
ProbabilitiesOf_OverMax(exps) ==
    [c \in 1..4 |-> [n |-> exps[c] * 100, d |-> ExpGrid]]

(* exps.map(e => (e / sumExps) * 100)                                       *)
ProbabilitiesOf(exps) ==
    LET sumExps == exps[1] + exps[2] + exps[3] + exps[4]
    IN [c \in 1..4 |-> [n |-> exps[c] * 100, d |-> sumExps]]

NoFeatureMap == [rawMap |-> <<>>, map |-> <<>>]
NoNumber == [n |-> 0, d |-> 0]
NoVector == <<>>

PvIdle ==
    /\ inputPatch = ZeroPatch
    /\ pvKernel = IDENTITY_KERNEL
    /\ pvUseReLU = FALSE
    /\ pvPoolingMode = "max"
    /\ featureMap = NoFeatureMap
    /\ pooledValue = NoNumber
    /\ flatVector = NoVector
    /\ logits = NoVector
    /\ probabilities = NoVector
    /\ pvPc = "idle"

(* A render with some props.                                                *)
PvRender ==
    /\ inputPatch \in Patches
    /\ pvKernel \in Kernels
    /\ pvUseReLU \in BOOLEAN
    /\ pvPoolingMode \in PoolingModes
    /\ featureMap = NoFeatureMap
    /\ pooledValue = NoNumber
    /\ flatVector = NoVector
    /\ logits = NoVector
    /\ probabilities = NoVector
    /\ pvPc = "props"

PvFeatureMap ==
    /\ pvPc = "props"
    /\ featureMap' = FeatureMapOf(inputPatch, pvKernel, pvUseReLU)
    /\ pvPc' = "featureMap"
    /\ UNCHANGED <<inputPatch, pvKernel, pvUseReLU, pvPoolingMode, pooledValue,
                   flatVector, logits, probabilities>>
    /\ UNCHANGED <<cvVars, appVars, aiVars>>

PvPooledValue ==
    /\ pvPc = "featureMap"
    /\ pooledValue' = PooledValueOf(featureMap, pvKernel.den, pvPoolingMode)
    /\ pvPc' = "pooledValue"
    /\ UNCHANGED <<inputPatch, pvKernel, pvUseReLU, pvPoolingMode, featureMap,
                   flatVector, logits, probabilities>>
    /\ UNCHANGED <<cvVars, appVars, aiVars>>

PvFlatVector ==
    /\ pvPc = "pooledValue"
    /\ flatVector' = FlatVectorOf(pooledValue)
    /\ pvPc' = "flatVector"
    /\ UNCHANGED <<inputPatch, pvKernel, pvUseReLU, pvPoolingMode, featureMap,
                   pooledValue, logits, probabilities>>
    /\ UNCHANGED <<cvVars, appVars, aiVars>>

PvLogits ==
    /\ pvPc = "flatVector"
    /\ logits' = LogitsOf(flatVector)
    /\ pvPc' = "logits"
    /\ UNCHANGED <<inputPatch, pvKernel, pvUseReLU, pvPoolingMode, featureMap,
                   pooledValue, flatVector, probabilities>>
    /\ UNCHANGED <<cvVars, appVars, aiVars>>

PvProbabilities ==
    /\ pvPc = "logits"
    /\ \E exps \in ExpsOf(logits) : probabilities' = ProbabilitiesOf(exps)
    /\ pvPc' = "probabilities"
    /\ UNCHANGED <<inputPatch, pvKernel, pvUseReLU, pvPoolingMode, featureMap,
                   pooledValue, flatVector, logits>>
    /\ UNCHANGED <<cvVars, appVars, aiVars>>

----------------------------------------------------------------------------
(* App: state, handlers and the processing effect.                         *)

DEFAULT_IMAGE_URL == "https://picsum.photos/id/175/500/500?grayscale"
UPLOADED_URL == "data:image/png;base64,upload"

Sources == {DEFAULT_IMAGE_URL, UPLOADED_URL}

MAX_SIZE == 400
MAX_W == 500

(* The decoded pixels of each source, at most MAX_SIZE wide and high, so    *)
(* that drawImage(img, 0, 0, w, h) copies them unscaled; opaque, so that    *)
(* getImageData reads back what was drawn.                                  *)
SourcePalette == <<
    <<0, 0, 0, 255>>,
    <<255, 255, 255, 255>>,
    <<200, 30, 91, 255>>,
    <<7, 250, 64, 255>>
>>

SourceImage(src) ==
    IF src = DEFAULT_IMAGE_URL
      THEN MakeImage(SourcePalette, 5, 5, 1, 2, 0)
      ELSE MakeImage(SourcePalette, 4, 4, 1, 1, 1)

DEFAULT_OPTIONS == [useGrayscale |-> TRUE, useReLU |-> TRUE, normalize |-> FALSE]

(* The values of a kernel cell's input element after typing, and the cells  *)
(* <<row, col>> typed into.                                                 *)
EditValues == {"2", ""}
EditCells == {<<1, 1>>, <<1, 2>>}

NoTimer == [armed |-> FALSE]
BlankCanvas == [width |-> 300, height |-> 150, data |-> EmptyBuffer]

(* Math.round((r + g + b) / 3) for channel bytes.                           *)
RoundMean3(sum) == (2 * sum + 3) \div 6

(* ctx.getImageData(sx, sy, 4, 4) turned into the 4x4 grayscale matrix;     *)
(* pixels outside the canvas read as transparent black.                     *)
PatchFromCanvas(canvas, sx, sy) ==
    [i \in 0..3 |-> [j \in 0..3 |->
        LET x == sx + j
            y == sy + i
            idx == 4 * (y * canvas.width + x)
        IN IF /\ x >= 0 /\ x < canvas.width /\ y >= 0 /\ y < canvas.height
              /\ idx \in DOMAIN canvas.data
             THEN RoundMean3(canvas.data[idx] + canvas.data[idx + 1]
                             + canvas.data[idx + 2])
             ELSE 0]]

(* The effect without its cleanup: the timer of the previous run of the     *)
(* effect stays armed and a new one is not added to it.                     *)
ArmTimer_NoCleanup(src, kern, opt) ==
    timer' = IF timer.armed THEN timer
             ELSE [armed |-> TRUE, imageSrc |-> src, kernel |-> kern, options |-> opt]

(* The effect of [imageSrc, kernel, options]: the cleanup clears the timer  *)
(* of the previous run of the effect, then a new 50 ms timer is armed whose *)
(* closure holds the new values.                                            *)
ArmTimer(src, kern, opt) ==
    timer' = [armed |-> TRUE, imageSrc |-> src, kernel |-> kern, options |-> opt]

AppIdle ==
    /\ imageSrc = DEFAULT_IMAGE_URL
    /\ kernel = PRESET_KERNELS[1].matrix
    /\ kernelRef = 1
    /\ options = DEFAULT_OPTIONS
    /\ processedImageData = NoImage
    /\ isProcessing = FALSE
    /\ selectedPatch = ZeroPatch
    /\ explanation = PRESET_KERNELS[1].description
    /\ timer = NoTimer
    /\ loading = <<>>
    /\ deferred = <<>>
    /\ sourceCanvas = BlankCanvas
    /\ displayCanvas = BlankCanvas
    /\ displayLoading = {}
    /\ changes = 0
    /\ poolingMode = "max"
    /\ viewMode = "structure"
    /\ showAiPanel = FALSE
    /\ presetKernels = [i \in 1..Len(PRESET_KERNELS) |-> PRESET_KERNELS[i].matrix]

(* After the first render and the first run of the effect.                  *)
AppInit ==
    /\ imageSrc = DEFAULT_IMAGE_URL
    /\ kernel = PRESET_KERNELS[1].matrix
    /\ kernelRef = 1
    /\ options = DEFAULT_OPTIONS
    /\ processedImageData = NoImage
    /\ isProcessing = FALSE
    /\ selectedPatch = ZeroPatch
    /\ explanation = PRESET_KERNELS[1].description
    /\ timer = [armed |-> TRUE, imageSrc |-> DEFAULT_IMAGE_URL,
                kernel |-> PRESET_KERNELS[1].matrix, options |-> DEFAULT_OPTIONS]
    /\ loading = <<>>
    /\ deferred = <<>>
    /\ sourceCanvas = BlankCanvas
    /\ displayCanvas = BlankCanvas
    /\ displayLoading = {DEFAULT_IMAGE_URL}
    /\ changes = 0
    /\ poolingMode = "max"
    /\ viewMode = "structure"
    /\ showAiPanel = FALSE
    /\ presetKernels = [i \in 1..Len(PRESET_KERNELS) |-> PRESET_KERNELS[i].matrix]

(* handleImageUpload, at reader.onload: setImageSrc(result).  An equal      *)
(* string is no state change and no effect runs again; a new one re-runs    *)
(* the processing effect and the drawing effect of the input ImageDisplay.  *)
ReaderOnload(s) ==
    /\ changes < MaxChanges
    /\ changes' = changes + 1
    /\ imageSrc' = s
    /\ IF s # imageSrc
         THEN ArmTimer(s, kernel, options) /\ displayLoading' = displayLoading \cup {s}
         ELSE UNCHANGED <<timer, displayLoading>>
    /\ UNCHANGED <<kernel, kernelRef, options, processedImageData, isProcessing,
                   selectedPatch, explanation, loading, deferred, sourceCanvas,
                   displayCanvas>>
    /\ UNCHANGED <<poolingMode, viewMode, showAiPanel, presetKernels>>
    /\ UNCHANGED <<cvVars, pvVars, aiVars>>

(* handlePresetChange(PRESET_KERNELS[i].name).  Setting the array that is   *)
(* already the state is no change of `kernel`.                              *)
handlePresetChange(i) ==
    /\ changes < MaxChanges
    /\ changes' = changes + 1
    /\ kernel' = presetKernels[i]
    /\ kernelRef' = i
    /\ explanation' = PRESET_KERNELS[i].description
    /\ IF kernelRef # i
         THEN ArmTimer(imageSrc, presetKernels[i], options)
         ELSE UNCHANGED timer
    /\ UNCHANGED <<imageSrc, options, processedImageData, isProcessing,
                   selectedPatch, loading, deferred, sourceCanvas, displayCanvas, displayLoading>>
    /\ UNCHANGED <<poolingMode, viewMode, showAiPanel, presetKernels>>
    /\ UNCHANGED <<cvVars, pvVars, aiVars>>

(* parseFloat(value) for what a cell of type "number" can hold: a decimal   *)
(* numeral, or "" when the field is empty or its text is not a number.      *)
ParseFloat(value) ==
    IF value = "2" THEN [isNaN |-> FALSE, n |-> 2]
    ELSE [isNaN |-> TRUE, n |-> 0]

(* Which array newKernel is, for a kernel that is array ref: the array      *)
(* literal of lines 16-20 is a new array with three new rows.               *)
NewKernelRef(ref) == 0

(* KernelGrid.handleChange(row, col, value) in a cell the grid renders,     *)
(* then App.handleKernelChange(newKernel).  The write of line 21 goes to    *)
(* the array newKernel.                                                     *)
handleChange(row, col, value) ==
    /\ changes < MaxChanges
    /\ row \in DOMAIN kernel.w /\ col \in DOMAIN kernel.w[row]
    /\ changes' = changes + 1
    /\ LET numValue == ParseFloat(value)
           newKernel == NewKernelRef(kernelRef)
       IN IF numValue.isNaN
            THEN UNCHANGED <<kernel, kernelRef, explanation, timer, presetKernels>>
            ELSE /\ kernel' = [kernel EXCEPT !.w[row][col] = numValue.n * kernel.den]
                 /\ kernelRef' = newKernel
                 /\ presetKernels' = IF newKernel \in DOMAIN presetKernels
                                       THEN [presetKernels EXCEPT ![newKernel] = kernel']
                                       ELSE presetKernels
                 /\ explanation' = "Custom kernel configuration."
                 /\ ArmTimer(imageSrc, kernel', options)
    /\ UNCHANGED <<imageSrc, options, processedImageData, isProcessing,
                   selectedPatch, loading, deferred, sourceCanvas, displayCanvas, displayLoading>>
    /\ UNCHANGED <<poolingMode, viewMode, showAiPanel>>
    /\ UNCHANGED <<cvVars, pvVars, aiVars>>

(* setOptions(o => ({...o, useGrayscale: !o.useGrayscale}))                 *)
ToggleGrayscale ==
    /\ changes < MaxChanges
    /\ changes' = changes + 1
    /\ options' = [options EXCEPT !.useGrayscale = ~options.useGrayscale]
    /\ ArmTimer(imageSrc, kernel, options')
    /\ UNCHANGED <<imageSrc, kernel, kernelRef, processedImageData, isProcessing,
                   selectedPatch, explanation, loading, deferred, sourceCanvas, displayCanvas, displayLoading>>
    /\ UNCHANGED <<poolingMode, viewMode, showAiPanel, presetKernels>>
    /\ UNCHANGED <<cvVars, pvVars, aiVars>>

(* setOptions(o => ({...o, useReLU: !o.useReLU}))                           *)
ToggleReLU ==
    /\ changes < MaxChanges
    /\ changes' = changes + 1
    /\ options' = [options EXCEPT !.useReLU = ~options.useReLU]
    /\ ArmTimer(imageSrc, kernel, options')
    /\ UNCHANGED <<imageSrc, kernel, kernelRef, processedImageData, isProcessing,
                   selectedPatch, explanation, loading, deferred, sourceCanvas, displayCanvas, displayLoading>>
    /\ UNCHANGED <<poolingMode, viewMode, showAiPanel, presetKernels>>
    /\ UNCHANGED <<cvVars, pvVars, aiVars>>

(* The 50 ms timer fires: processImage up to img.src = imageSrc.            *)
processImage ==
    /\ timer.armed
    /\ Len(loading) + Len(deferred) < MaxRuns
    /\ isProcessing' = TRUE
    /\ loading' = Append(loading, [imageSrc |-> timer.imageSrc,
                                   kernel |-> timer.kernel,
                                   options |-> timer.options])
    /\ timer' = NoTimer
    /\ UNCHANGED <<imageSrc, kernel, kernelRef, options, processedImageData,
                   selectedPatch, explanation, deferred, sourceCanvas, displayCanvas, displayLoading, changes>>
    /\ UNCHANGED <<poolingMode, viewMode, showAiPanel, presetKernels>>
    /\ UNCHANGED <<cvVars, pvVars, aiVars>>

(* img.onload of the i-th loading run: size the shared canvas, draw, read   *)
(* imageData back, schedule the 10 ms callback.                             *)
ImgOnload(i) ==
    /\ i \in 1..Len(loading)
    /\ LET run == loading[i]
           img == SourceImage(run.imageSrc)
           w == img.width
           h == img.height
       IN /\ w <= MAX_SIZE /\ h <= MAX_SIZE
          /\ sourceCanvas' = [width |-> w, height |-> h, data |-> img.data]
          /\ deferred' = Append(deferred,
                                [kernel |-> run.kernel, options |-> run.options,
                                 imageData |-> sourceCanvas', w |-> w, h |-> h])
    /\ loading' = [k \in 1..(Len(loading) - 1) |->
                      IF k < i THEN loading[k] ELSE loading[k + 1]]
    /\ UNCHANGED <<imageSrc, kernel, kernelRef, options, processedImageData,
                   isProcessing, selectedPatch, explanation, timer, changes,
                   displayCanvas, displayLoading>>
    /\ UNCHANGED <<poolingMode, viewMode, showAiPanel, presetKernels>>
    /\ UNCHANGED <<cvVars, pvVars, aiVars>>

(* The 10 ms callback of the run whose image loaded first.                  *)
DeferredCallback ==
    /\ deferred # <<>>
    /\ LET run == Head(deferred)
           cx == run.w \div 2
           cy == run.h \div 2
       IN /\ processedImageData' = applyConvolution(run.imageData, run.kernel, run.options)
          /\ isProcessing' = FALSE
          /\ selectedPatch' = PatchFromCanvas(sourceCanvas, cx - 1, cy - 1)
    /\ deferred' = Tail(deferred)
    /\ UNCHANGED <<imageSrc, kernel, kernelRef, options, explanation, timer,
                   loading, sourceCanvas, displayCanvas, displayLoading, changes>>
    /\ UNCHANGED <<poolingMode, viewMode, showAiPanel, presetKernels>>
    /\ UNCHANGED <<cvVars, pvVars, aiVars>>

(* ImageDisplay (input image), img.onload of a load of source s: the       *)
(* canvas takes the image's size (at most MAX_W wide) and the image is      *)
(* drawn.                                                                   *)
DisplayImgOnload(s) ==
    /\ s \in displayLoading
    /\ SourceImage(s).width <= MAX_W
    /\ displayCanvas' = SourceImage(s)
    /\ displayLoading' = displayLoading \ {s}
    /\ UNCHANGED <<imageSrc, kernel, kernelRef, options, processedImageData, isProcessing,
                   selectedPatch, explanation, timer, loading, deferred, sourceCanvas,
                   changes>>
    /\ UNCHANGED <<poolingMode, viewMode, showAiPanel, presetKernels>>
    /\ UNCHANGED <<cvVars, pvVars, aiVars>>

(* The two ImageDisplay elements of App and their prop `interactive`: true  *)
(* for the input image, not passed for the output image.                    *)
Displays == {"input", "output"}
Interactive(display) == display = "input"

(* The boundary test of handleMouseMove with the test of x + 2 left out of  *)
(* it.                                                                      *)
OutsideBounds_NoRightMargin(canvas, x, y) ==
    x < 1 \/ y < 1 \/ y >= canvas.height - 2

(* The boundary test of handleMouseMove for canvas pixel (x, y).            *)
OutsideBounds(canvas, x, y) ==
    x < 1 \/ x >= canvas.width - 2 \/ y < 1 \/ y >= canvas.height - 2

(* ImageDisplay.handleMouseMove of one of the two displays with the         *)
(* pointer over canvas pixel (x, y), then App.handlePatchSelect(matrix).    *)
handleMouseMove(display, x, y) ==
    /\ changes < MaxChanges
    /\ changes' = changes + 1
    /\ IF ~Interactive(display) \/ OutsideBounds(displayCanvas, x, y)
         THEN UNCHANGED selectedPatch
         ELSE selectedPatch' = PatchFromCanvas(displayCanvas, x - 1, y - 1)
    /\ UNCHANGED <<imageSrc, kernel, kernelRef, options, processedImageData, isProcessing,
                   explanation, timer, loading, deferred, sourceCanvas, displayCanvas,
                   displayLoading>>
    /\ UNCHANGED <<poolingMode, viewMode, showAiPanel, presetKernels>>
    /\ UNCHANGED <<cvVars, pvVars, aiVars>>

(* A continuation of an async handler is queued: it runs before any event.  *)
MicrotaskPending == \E i \in 1..Len(aiCalls) : aiCalls[i].pc = "returned"

ViewModes == {"structure", "preview"}

(* The state no handler below writes: everything the processing effect      *)
(* reads or writes, the patch and the explanation.                          *)
coreVars == <<imageSrc, kernel, kernelRef, options, processedImageData, isProcessing,
              selectedPatch, explanation, timer, loading, deferred, sourceCanvas,
              displayCanvas, displayLoading, presetKernels>>

(* The pooling toggle with poolingMode among the dependencies of the        *)
(* processing effect.                                                       *)
togglePoolingMode_InDeps ==
    /\ changes < MaxChanges
    /\ ~MicrotaskPending
    /\ changes' = changes + 1
    /\ poolingMode' = IF poolingMode = "max" THEN "average" ELSE "max"
    /\ ArmTimer(imageSrc, kernel, options)
    /\ UNCHANGED <<viewMode, showAiPanel>>
    /\ UNCHANGED <<imageSrc, kernel, kernelRef, options, processedImageData, isProcessing,
                   selectedPatch, explanation, loading, deferred, sourceCanvas,
                   displayCanvas, displayLoading, presetKernels>>
    /\ UNCHANGED <<cvVars, pvVars, aiVars>>

(* Click on the pooling card: setPoolingMode(p => p === 'max' ? 'average'   *)
(* : 'max').                                                                *)
togglePoolingMode ==
    /\ changes < MaxChanges
    /\ ~MicrotaskPending
    /\ changes' = changes + 1
    /\ poolingMode' = IF poolingMode = "max" THEN "average" ELSE "max"
    /\ UNCHANGED <<viewMode, showAiPanel>>
    /\ UNCHANGED coreVars
    /\ UNCHANGED <<cvVars, pvVars, aiVars>>

(* Click on a view button: setViewMode('structure') or                      *)
(* setViewMode('preview').                                                  *)
setViewMode(m) ==
    /\ changes < MaxChanges
    /\ ~MicrotaskPending
    /\ changes' = changes + 1
    /\ viewMode' = m
    /\ UNCHANGED <<poolingMode, showAiPanel>>
    /\ UNCHANGED coreVars
    /\ UNCHANGED <<cvVars, pvVars, aiVars>>

(* Click on the sparkles button: setShowAiPanel(!showAiPanel).              *)
toggleAiPanel ==
    /\ changes < MaxChanges
    /\ ~MicrotaskPending
    /\ changes' = changes + 1
    /\ showAiPanel' = ~showAiPanel
    /\ UNCHANGED <<poolingMode, viewMode>>
    /\ UNCHANGED coreVars
    /\ UNCHANGED <<cvVars, pvVars, aiVars>>

----------------------------------------------------------------------------
(* geminiService and the AI panel of App.                                  *)

NoKey == ""
ApiKeys == {NoKey, "configured-key"}

(* What the user has typed into the prompt field.                           *)
Prompts == {"", "   ", "find vertical edges"}

(* The test of line 81 without the trim().                                  *)
Trim_Identity(p) == p

(* aiPrompt.trim()                                                          *)
Trim(p) == IF p = "   " THEN "" ELSE p

(* Response texts of the service to the kernel request.                     *)
TextWellFormed == "{\"matrix\":[[0,-1,0],[-1,5,-1],[0,-1,0]],\"explanation\":\"Sharpens.\"}"
TextNotJson == "Sorry, I cannot help with that."
TextNoMatrix == "{\"explanation\":\"No kernel.\"}"
TextTwoRows == "{\"matrix\":[[1,0,-1],[1,0,-1]],\"explanation\":\"Two rows.\"}"
TextShortFirstRow == "{\"matrix\":[[1,0],[1,0,-1],[1,0,-1]],\"explanation\":\"Short first row.\"}"
TextShortSecondRow == "{\"matrix\":[[1,0,-1],[2,0],[1,0,-1]],\"explanation\":\"Short second row.\"}"
TextLongThirdRow == "{\"matrix\":[[0,1,0],[1,-4,1],[0,1,0,7]],\"explanation\":\"Long third row.\"}"
TextExplanation == "This kernel detects edges."

(* What `await ai.models.generateContent(...)` gives: a rejection, or a     *)
(* response with its text ("" for an empty or missing text).                *)
GenerateResponses ==
    {[throws |-> TRUE, text |-> ""]}
    \cup {[throws |-> FALSE, text |-> t] :
            t \in {"", TextWellFormed, TextNotJson, TextNoMatrix, TextTwoRows,
                   TextShortFirstRow, TextShortSecondRow, TextLongThirdRow}}

ExplainResponses ==
    {[throws |-> TRUE, text |-> ""],
     [throws |-> FALSE, text |-> ""],
     [throws |-> FALSE, text |-> TextExplanation]}

(* JSON.parse(text): the parsed object, or the SyntaxError.                 *)
JsonParse(text) ==
    CASE text = TextWellFormed ->
           [throws |-> FALSE, hasMatrix |-> TRUE,
            matrix |-> << <<0, -1, 0>>, <<-1, 5, -1>>, <<0, -1, 0>> >>,
            explanation |-> "Sharpens."]
      [] text = TextNoMatrix ->
           [throws |-> FALSE, hasMatrix |-> FALSE, matrix |-> <<>>,
            explanation |-> "No kernel."]
      [] text = TextTwoRows ->
           [throws |-> FALSE, hasMatrix |-> TRUE,
            matrix |-> << <<1, 0, -1>>, <<1, 0, -1>> >>,
            explanation |-> "Two rows."]
      [] text = TextShortFirstRow ->
           [throws |-> FALSE, hasMatrix |-> TRUE,
            matrix |-> << <<1, 0>>, <<1, 0, -1>>, <<1, 0, -1>> >>,
            explanation |-> "Short first row."]
      [] text = TextShortSecondRow ->
           [throws |-> FALSE, hasMatrix |-> TRUE,
            matrix |-> << <<1, 0, -1>>, <<2, 0>>, <<1, 0, -1>> >>,
            explanation |-> "Short second row."]
      [] text = TextLongThirdRow ->
           [throws |-> FALSE, hasMatrix |-> TRUE,
            matrix |-> << <<0, 1, 0>>, <<1, -4, 1>>, <<0, 1, 0, 7>> >>,
            explanation |-> "Long third row."]
      [] OTHER ->
           [throws |-> TRUE, hasMatrix |-> FALSE, matrix |-> <<>>, explanation |-> ""]

(* The values the two service functions return: null, a kernel with its     *)
(* explanation, or a text.                                                  *)
NullResult == [kind |-> "null", matrix |-> <<>>, text |-> ""]
KernelResult(m, e) == [kind |-> "kernel", matrix |-> m, text |-> e]
TextResult(t) == [kind |-> "text", matrix |-> <<>>, text |-> t]
NoResult == [kind |-> "pending", matrix |-> <<>>, text |-> ""]
NoResponse == [throws |-> FALSE, text |-> "(none)"]

(* explainKernel without the `|| "Unable to generate explanation."`.        *)
ExplainKernelSettle_NoFallback(response) ==
    IF response.throws
      THEN TextResult("AI explanation unavailable. Please check your API key.")
      ELSE TextResult(response.text)

(* explainKernel from the await on: lines 30-34.                            *)
ExplainKernelSettle(response) ==
    IF response.throws
      THEN TextResult("AI explanation unavailable. Please check your API key.")
    ELSE IF response.text = ""
      THEN TextResult("Unable to generate explanation.")
    ELSE TextResult(response.text)

(* generateKernelFromPrompt from the await on: lines 74-91.  The structure  *)
(* check looks at the number of rows and at the length of row 0.            *)
GenerateKernelSettle(response) ==
    IF response.throws THEN NullResult
    ELSE IF response.text = "" THEN NullResult
    ELSE LET result == JsonParse(response.text)
         IN IF result.throws THEN NullResult
            ELSE IF /\ result.hasMatrix
                    /\ Len(result.matrix) = 3
                    /\ Len(result.matrix[1]) = 3
              THEN KernelResult(result.matrix, result.explanation)
            ELSE NullResult

(* The parsed number[][] as the value of the state `kernel`: the same rows  *)
(* with the same lengths, indexed from 0.                                   *)
KernelOfJson(m) ==
    [w |-> [i \in 0..(Len(m) - 1) |->
              [j \in 0..(Len(m[i + 1]) - 1) |-> m[i + 1][j + 1]]],
     den |-> 1]

AiIdle ==
    /\ apiKey = NoKey
    /\ aiPrompt = ""
    /\ aiLoading = FALSE
    /\ aiCalls = <<>>

(* The module is loaded with or without API_KEY; App is mounted.            *)
AiLoaded ==
    /\ apiKey \in ApiKeys
    /\ aiPrompt = ""
    /\ aiLoading = FALSE
    /\ aiCalls = <<>>

RemoveAt(seq, i) ==
    [k \in 1..(Len(seq) - 1) |-> IF k < i THEN seq[k] ELSE seq[k + 1]]

(* The prompt field, the generate button and the explain link are rendered  *)
(* only while showAiPanel is true.  onChange of the prompt field.           *)
setAiPrompt(p) ==
    /\ ~MicrotaskPending
    /\ showAiPanel
    /\ p # aiPrompt
    /\ aiPrompt' = p
    /\ UNCHANGED <<apiKey, aiLoading, aiCalls>>
    /\ UNCHANGED <<cvVars, pvVars, appVars>>

(* The call a service function makes up to its first await: without an API  *)
(* key it returns at once, otherwise one request is sent.  The handler's    *)
(* closure holds the `kernel` of the render it was created in (the          *)
(* argument of explainKernel).                                              *)
StartCall(op) ==
    IF apiKey = NoKey
      THEN [op |-> op, pc |-> "returned", requests |-> 0, response |-> NoResponse,
            kernel |-> kernel,
            result |-> IF op = "explain"
                         THEN TextResult("Please configure your API_KEY to get AI explanations.")
                         ELSE NullResult]
      ELSE [op |-> op, pc |-> "awaiting", requests |-> 1, response |-> NoResponse,
            kernel |-> kernel,
            result |-> NoResult]

(* handleAiGenerate up to its await (button click or Enter in the field).   *)
handleAiGenerate ==
    /\ ~MicrotaskPending
    /\ showAiPanel
    /\ Len(aiCalls) < MaxCalls
    /\ Trim(aiPrompt) # ""
    /\ aiLoading' = TRUE
    /\ explanation' = "Generating kernel..."
    /\ aiCalls' = Append(aiCalls, StartCall("generate"))
    /\ UNCHANGED <<apiKey, aiPrompt>>
    /\ UNCHANGED <<imageSrc, kernel, kernelRef, options, processedImageData, isProcessing,
                   selectedPatch, timer, loading, deferred, sourceCanvas, displayCanvas, displayLoading, changes>>
    /\ UNCHANGED <<poolingMode, viewMode, showAiPanel, presetKernels>>
    /\ UNCHANGED <<cvVars, pvVars>>

(* handleAiExplain up to its await.                                         *)
handleAiExplain ==
    /\ ~MicrotaskPending
    /\ showAiPanel
    /\ Len(aiCalls) < MaxCalls
    /\ aiLoading' = TRUE
    /\ aiCalls' = Append(aiCalls, StartCall("explain"))
    /\ UNCHANGED <<apiKey, aiPrompt>>
    /\ UNCHANGED <<cvVars, pvVars, appVars>>

(* The request of call i settles with response r: the service function     *)
(* runs from its await to its return.                                       *)
GenerateContentSettles(i, r) ==
    /\ ~MicrotaskPending
    /\ i \in 1..Len(aiCalls)
    /\ aiCalls[i].pc = "awaiting"
    /\ r \in (IF aiCalls[i].op = "explain" THEN ExplainResponses ELSE GenerateResponses)
    /\ aiCalls' = [aiCalls EXCEPT
                      ![i].pc = "returned",
                      ![i].response = r,
                      ![i].result = IF aiCalls[i].op = "explain"
                                      THEN ExplainKernelSettle(r)
                                      ELSE GenerateKernelSettle(r)]
    /\ UNCHANGED <<apiKey, aiPrompt, aiLoading>>
    /\ UNCHANGED <<cvVars, pvVars, appVars>>

(* handleAiGenerate after its await: lines 86-92, and the effect of a new   *)
(* kernel.                                                                  *)
AiGenerateResume(i) ==
    /\ i \in 1..Len(aiCalls)
    /\ aiCalls[i].pc = "returned"
    /\ aiCalls[i].op = "generate"
    /\ IF aiCalls[i].result.kind = "kernel"
         THEN /\ kernel' = KernelOfJson(aiCalls[i].result.matrix)
              /\ kernelRef' = 0
              /\ explanation' = aiCalls[i].result.text
              /\ ArmTimer(imageSrc, kernel', options)
         ELSE /\ explanation' = "Failed to generate kernel. Please try a different description."
              /\ UNCHANGED <<kernel, kernelRef, timer>>
    /\ aiLoading' = FALSE
    /\ aiCalls' = RemoveAt(aiCalls, i)
    /\ UNCHANGED <<apiKey, aiPrompt>>
    /\ UNCHANGED <<imageSrc, options, processedImageData, isProcessing,
                   selectedPatch, loading, deferred, sourceCanvas, displayCanvas, displayLoading, changes>>
    /\ UNCHANGED <<poolingMode, viewMode, showAiPanel, presetKernels>>
    /\ UNCHANGED <<cvVars, pvVars>>

(* handleAiExplain after its await: lines 98-99.                            *)
AiExplainResume(i) ==
    /\ i \in 1..Len(aiCalls)
    /\ aiCalls[i].pc = "returned"
    /\ aiCalls[i].op = "explain"
    /\ explanation' = aiCalls[i].result.text
    /\ aiLoading' = FALSE
    /\ aiCalls' = RemoveAt(aiCalls, i)
    /\ UNCHANGED <<apiKey, aiPrompt>>
    /\ UNCHANGED <<imageSrc, kernel, kernelRef, options, processedImageData, isProcessing,
                   selectedPatch, timer, loading, deferred, sourceCanvas, displayCanvas, displayLoading, changes>>
    /\ UNCHANGED <<poolingMode, viewMode, showAiPanel, presetKernels>>
    /\ UNCHANGED <<cvVars, pvVars>>

(* A kernel change by the user while AI calls are in flight.                *)
AiUserPreset(i) == ~MicrotaskPending /\ handlePresetChange(i)
AiUserEdit(row, col, value) == ~MicrotaskPending /\ handleChange(row, col, value)

----------------------------------------------------------------------------
(* The specifications.                                                     *)
CvInit == CvCall /\ PvIdle /\ AppIdle /\ AiIdle

CvNext == CvPixelLoop \/ CvNormalize \/ CvReturn \/ CvThrow

SpecConv == CvInit /\ [][CvNext]_vars

PvInit == PvRender /\ CvIdle /\ AppIdle /\ AiIdle

PvNext == PvFeatureMap \/ PvPooledValue \/ PvFlatVector \/ PvLogits \/ PvProbabilities

SpecPatch == PvInit /\ [][PvNext]_vars

Init == AppInit /\ CvIdle /\ PvIdle /\ AiIdle

Next ==
    \/ \E s \in Sources : ReaderOnload(s)
    \/ \E i \in 1..Len(PRESET_KERNELS) : handlePresetChange(i)
    \/ \E c \in EditCells, v \in EditValues : handleChange(c[1], c[2], v)
    \/ ToggleGrayscale
    \/ ToggleReLU
    \/ processImage
    \/ \E i \in 1..MaxRuns : ImgOnload(i)
    \/ DeferredCallback
    \/ \E s \in Sources : DisplayImgOnload(s)
    \/ \E d \in Displays : \E x, y \in 0..MaxMouse : handleMouseMove(d, x, y)
    \/ togglePoolingMode
    \/ \E m \in ViewModes : setViewMode(m)
    \/ toggleAiPanel

Spec == Init /\ [][Next]_vars

AiInit == AppInit /\ CvIdle /\ PvIdle /\ AiLoaded

AiNext ==
    \/ \E p \in Prompts : setAiPrompt(p)
    \/ handleAiGenerate
    \/ handleAiExplain
    \/ \E i \in 1..MaxCalls : \E r \in GenerateResponses \cup ExplainResponses :
          GenerateContentSettles(i, r)
    \/ \E i \in 1..MaxCalls : AiGenerateResume(i)
    \/ \E i \in 1..MaxCalls : AiExplainResume(i)
    \/ \E i \in 1..Len(PRESET_KERNELS) : AiUserPreset(i)
    \/ \E c \in EditCells, v \in EditValues : AiUserEdit(c[1], c[2], v)
    \/ togglePoolingMode
    \/ \E m \in ViewModes : setViewMode(m)
    \/ toggleAiPanel

SpecAi == AiInit /\ [][AiNext]_vars

----
(* Properties of applyConvolution.                                         *)

Sum3(F(_)) == F(-1) + F(0) + F(1)

CvPixels == 0..(cvImageData.width * cvImageData.height - 1)
CvRGB == {i \in DOMAIN cvOutput : i % 4 # 3}

(* out is the saturated, rounded n/d: 255 at or above 255, 0 at or below 0, *)
(* otherwise an integer no further than 1/2 from n/d.                       *)
IsSaturatedRounded(out, n, d) ==
    \/ n >= 255 * d /\ out = 255
    \/ n <= 0 /\ out = 0
    \/ n > 0 /\ n < 255 * d /\ out \in 0..255 /\ 2 * Abs(out * d - n) <= d

IdentityCase ==
    /\ cvKernel = IDENTITY_KERNEL
    /\ cvOptions = [useGrayscale |-> FALSE, useReLU |-> TRUE, normalize |-> FALSE]

(* C3, as stated: with the identity kernel, ReLU on, grayscale and          *)
(* normalize off, the returned buffer equals the input buffer in every      *)
(* channel of every pixel (alpha included).                                 *)
C3_IdentityAllChannels ==
    (cvPc = "returned" /\ IdentityCase) => cvResult = cvImageData

(* C3, amended: in that case the returned buffer has the input's width and  *)
(* height, its R, G and B entries equal the input's, and its alpha entries  *)
(* are 255 whatever the input alpha was.                                    *)
C3_IdentityKeepsRGB ==
    (cvPc = "returned" /\ IdentityCase) =>
        /\ cvResult.width = cvImageData.width
        /\ cvResult.height = cvImageData.height
        /\ DOMAIN cvResult.data = DOMAIN cvImageData.data
        /\ \A i \in DOMAIN cvResult.data :
              cvResult.data[i] = IF i % 4 = 3 THEN 255 ELSE cvImageData.data[i]

C3_Witness ==
    /\ cvPc = "returned"
    /\ IdentityCase
    /\ cvImageData.width = MaxW
    /\ \E i \in DOMAIN cvImageData.data : i % 4 = 3 /\ cvImageData.data[i] # 255
    /\ \E i, j \in DOMAIN cvImageData.data :
          i % 4 = 0 /\ j = i + 1 /\ cvImageData.data[i] # cvImageData.data[j]

CvPre == ConvolvePass(cvImageData, cvKernel, cvOptions, cvRaw)
CvFlat(out) == \A i, j \in DOMAIN out : (i % 4 # 3 /\ j % 4 # 3) => out[i] = out[j]

(* C4: with normalize on, the R,G,B entries of the returned buffer have     *)
(* minimum 0 and maximum 255, unless the buffer before the normalize pass   *)
(* was flat, and then the returned entries are the ones before the pass.    *)
C4_NormalizeFullRange ==
    (cvPc = "returned" /\ cvOptions.normalize) =>
        IF CvFlat(CvPre)
          THEN cvResult.data = CvPre
          ELSE /\ \E i \in CvRGB : cvResult.data[i] = 0
               /\ \E i \in CvRGB : cvResult.data[i] = 255
               /\ \A i \in CvRGB : cvResult.data[i] \in 0..255

C4_Witness ==
    /\ cvPc = "returned"
    /\ cvOptions.normalize
    /\ ~CvFlat(CvPre)
    /\ \A i \in CvRGB : CvPre[i] > 0 /\ CvPre[i] < 255
    /\ \E i \in CvRGB : cvResult.data[i] = 255

(* The input channel at (x, y), zero outside the image.                     *)
Padded(img, x, y, ch) ==
    IF x \in 0..(img.width - 1) /\ y \in 0..(img.height - 1)
      THEN img.data[4 * (y * img.width + x) + ch]
      ELSE 0

(* C5: the raw r, g, b of every pixel (x, y) are the sums over ky, kx in    *)
(* -1..1 of kernel[ky+1][kx+1] * input[y+ky][x+kx], with zero for every     *)
(* position outside the image, over the kernel's own denominator (no        *)
(* division by the weight sum).                                             *)
C5_RawIsZeroPaddedSum ==
    cvPc # "start" =>
        /\ DOMAIN cvRaw = CvPixels
        /\ \A p \in CvPixels : \A ch \in 0..2 :
              cvRaw[p][ch + 1] =
                 Sum3(LAMBDA ky : Sum3(LAMBDA kx :
                    cvKernel.w[ky + 1][kx + 1]
                    * Padded(cvImageData, (p % cvImageData.width) + kx,
                             (p \div cvImageData.width) + ky, ch)))

C5_Witness ==
    /\ cvPc = "stored"
    /\ cvImageData.width = 3
    /\ cvImageData.height = 3
    /\ cvKernel = PRESET_KERNELS[2].matrix
    /\ cvRaw[0][1] > 0
    /\ cvRaw[2][1] < 0
    /\ cvRaw[4][1] # 0

(* The activated value of raw channel v, stated case by case.               *)
IsActivated(a, v, useReLU) ==
    IF useReLU THEN (v >= 0 /\ a = v) \/ (v < 0 /\ a = 0)
               ELSE a >= 0 /\ (a = v \/ a = -v)

(* C6: after the pixel loop every stored R,G,B is the stored value of the   *)
(* activated channel (max(0,v) with ReLU, |v| without), or, with grayscale, *)
(* of the mean of the three activated channels; without ReLU two pixels     *)
(* whose raw values are opposite store the same R,G,B.                      *)
C6_ActivationPerChannel ==
    cvPc = "stored" =>
        /\ \A p \in CvPixels :
              \E ar \in {0, cvRaw[p][1], -cvRaw[p][1]},
                 ag \in {0, cvRaw[p][2], -cvRaw[p][2]},
                 ab \in {0, cvRaw[p][3], -cvRaw[p][3]} :
                 /\ IsActivated(ar, cvRaw[p][1], cvOptions.useReLU)
                 /\ IsActivated(ag, cvRaw[p][2], cvOptions.useReLU)
                 /\ IsActivated(ab, cvRaw[p][3], cvOptions.useReLU)
                 /\ IF cvOptions.useGrayscale
                      THEN \A c \in 0..2 :
                              cvOutput[4 * p + c] =
                                 ToUint8Clamp(ar + ag + ab, 3 * cvKernel.den)
                      ELSE /\ cvOutput[4 * p] = ToUint8Clamp(ar, cvKernel.den)
                           /\ cvOutput[4 * p + 1] = ToUint8Clamp(ag, cvKernel.den)
                           /\ cvOutput[4 * p + 2] = ToUint8Clamp(ab, cvKernel.den)
        /\ ~cvOptions.useReLU =>
              \A p, q \in CvPixels :
                 (\A c \in 1..3 : cvRaw[p][c] = -cvRaw[q][c]) =>
                     \A c \in 0..2 : cvOutput[4 * p + c] = cvOutput[4 * q + c]

C6_Witness ==
    /\ cvPc = "stored"
    /\ ~cvOptions.useReLU
    /\ cvOptions.useGrayscale
    /\ \E p, q \in CvPixels :
          /\ \A c \in 1..3 : cvRaw[p][c] = -cvRaw[q][c]
          /\ cvRaw[p][1] > 0
          /\ cvRaw[p][2] < 0
          /\ cvOutput[4 * p] > 0

(* C8, as stated: every call, the zero-sized image included, raises no      *)
(* error and returns a buffer of the input's width and height with          *)
(* 4 * width * height entries.                                              *)
C8_AlwaysReturnsSameSize ==
    /\ cvPc # "threw"
    /\ cvPc = "returned" =>
          /\ cvResult.width = cvImageData.width
          /\ cvResult.height = cvImageData.height
          /\ DOMAIN cvResult.data = 0..(4 * cvImageData.width * cvImageData.height - 1)

(* The post-processed number handed to the store for entry i.               *)
CvHanded(i) ==
    LET v == PostProcess(cvRaw[i \div 4], cvKernel.den, cvOptions)
    IN [n |-> IF i % 4 = 0 THEN v.r ELSE IF i % 4 = 1 THEN v.g ELSE v.b, d |-> v.d]

(* C9: in the buffer, from the pixel loop to the return, every alpha entry  *)
(* is 255 and every R,G,B entry is an integer in 0..255; after the pixel    *)
(* loop each R,G,B entry is the saturated, rounded post-processed value.    *)
C9_AlphaOpaqueRGBSaturated ==
    /\ cvPc # "start" =>
          \A i \in DOMAIN cvOutput :
             IF i % 4 = 3 THEN cvOutput[i] = 255 ELSE cvOutput[i] \in 0..255
    /\ cvPc = "stored" =>
          \A i \in CvRGB :
             IsSaturatedRounded(cvOutput[i], CvHanded(i).n, CvHanded(i).d)
    /\ cvPc = "returned" =>
          \A i \in DOMAIN cvResult.data :
             IF i % 4 = 3 THEN cvResult.data[i] = 255 ELSE cvResult.data[i] \in 0..255

C9_Witness ==
    /\ cvPc = "returned"
    /\ cvOptions.normalize
    /\ \E i \in DOMAIN cvImageData.data : i % 4 = 3 /\ cvImageData.data[i] = 0
    /\ \E i \in CvRGB : CvHanded(i).n > 255 * CvHanded(i).d
    /\ \E i \in CvRGB : CvHanded(i).n = 0 /\ cvRaw[i \div 4][(i % 4) + 1] < 0

(* C10: with grayscale on, after the pixel loop R = G = B = the saturated,  *)
(* rounded mean of the three activated channels, for every pixel; R = G = B *)
(* still holds after the normalize pass and in the returned buffer.         *)
C10_GrayscaleMean ==
    cvOptions.useGrayscale =>
        /\ cvPc # "start" =>
              \A p \in CvPixels :
                 cvOutput[4 * p] = cvOutput[4 * p + 1]
                 /\ cvOutput[4 * p + 1] = cvOutput[4 * p + 2]
        /\ cvPc = "stored" =>
              \A p \in CvPixels :
                 IsSaturatedRounded(
                    cvOutput[4 * p],
                    Activate(cvRaw[p][1], cvOptions.useReLU)
                      + Activate(cvRaw[p][2], cvOptions.useReLU)
                      + Activate(cvRaw[p][3], cvOptions.useReLU),
                    3 * cvKernel.den)
        /\ cvPc = "returned" =>
              \A p \in CvPixels :
                 cvResult.data[4 * p] = cvResult.data[4 * p + 1]
                 /\ cvResult.data[4 * p + 1] = cvResult.data[4 * p + 2]

C10_Witness ==
    /\ cvPc = "returned"
    /\ cvOptions.useGrayscale
    /\ cvOptions.normalize
    /\ cvResult.data # CvPre
    /\ \E p \in CvPixels :
          /\ cvRaw[p][1] # cvRaw[p][2]
          /\ cvRaw[p][2] # cvRaw[p][3]
          /\ cvResult.data[4 * p] \in 1..254

(* The R,G,B values of a buffer, all channels and all pixels together.      *)
RGBValues(out) == {out[i] : i \in {k \in DOMAIN out : k % 4 # 3}}

(* C11: with normalize on, the pass takes one minimum and one maximum over  *)
(* the R,G,B entries of all pixels together (alpha left out); when max >    *)
(* min every R,G,B entry v becomes the stored (v - min) * 255 / (max - min) *)
(* and alpha stays; when max = min, or there is no pixel, nothing changes.  *)
C11_NormalizeJointMinMax ==
    (cvPc \in {"normalized", "returned"} /\ cvOptions.normalize) =>
        LET pre == CvPre
            rgb == RGBValues(pre)
        IN /\ DOMAIN cvOutput = DOMAIN pre
           /\ cvPc = "returned" => cvResult.data = cvOutput
           /\ IF rgb = {}
                THEN cvOutput = pre
                ELSE LET mn == CHOOSE m \in rgb : \A v \in rgb : m <= v
                         mx == CHOOSE m \in rgb : \A v \in rgb : m >= v
                     IN \A i \in DOMAIN pre :
                           IF i % 4 = 3 \/ mx = mn
                             THEN cvOutput[i] = pre[i]
                             ELSE IsSaturatedRounded(cvOutput[i],
                                                     (pre[i] - mn) * 255, mx - mn)

(* A colour image whose red channel alone spans less than the three         *)
(* channels together, rescaled to values strictly inside 0..255.            *)
C11_Witness ==
    /\ cvPc = "normalized"
    /\ ~cvOptions.useGrayscale
    /\ LET pre == CvPre
           red == {pre[i] : i \in {k \in DOMAIN pre : k % 4 = 0}}
       IN /\ \E v \in RGBValues(pre) : \A r \in red : v < r
          /\ \E v \in RGBValues(pre) : \A r \in red : v > r
          /\ \E r1, r2 \in red : r1 # r2
          /\ \E i \in CvRGB : cvOutput[i] \in 1..254 /\ cvOutput[i] # pre[i]

----------------------------------------------------------------------------
(* Properties of the patch forward pass.                                   *)

Sum02(F(_)) == F(0) + F(1) + F(2)

(* C2, as stated: with a pooling mode that is neither 'max' nor 'average'   *)
(* the pooling stage fails, so it never returns a pooled value.             *)
C2_UnknownModeNeverPools ==
    ~(pvPc = "pooledValue" /\ pvPoolingMode \notin {"max", "average"})

(* C7: the feature map is 2x2; raw[y][x] is the sum over ky, kx in 0..2 of  *)
(* patch[y+ky][x+kx] * kernel[ky][kx] with every patch index inside 0..3;   *)
(* activated is max(0, raw) with ReLU and the signed raw value without.     *)
C7_PatchFeatureMap ==
    pvPc \in {"featureMap", "pooledValue"} =>
        /\ DOMAIN featureMap.rawMap = 0..1
        /\ DOMAIN featureMap.map = 0..1
        /\ \A y \in 0..1 :
              /\ DOMAIN featureMap.rawMap[y] = 0..1
              /\ DOMAIN featureMap.map[y] = 0..1
              /\ \A x \in 0..1 :
                    /\ \A ky, kx \in 0..2 :
                          y + ky \in DOMAIN inputPatch
                          /\ x + kx \in DOMAIN inputPatch[y + ky]
                    /\ featureMap.rawMap[y][x] =
                          Sum02(LAMBDA ky : Sum02(LAMBDA kx :
                             inputPatch[y + ky][x + kx] * pvKernel.w[ky][kx]))
                    /\ IF pvUseReLU
                         THEN \/ featureMap.rawMap[y][x] >= 0
                                 /\ featureMap.map[y][x] = featureMap.rawMap[y][x]
                              \/ featureMap.rawMap[y][x] < 0
                                 /\ featureMap.map[y][x] = 0
                         ELSE featureMap.map[y][x] = featureMap.rawMap[y][x]

C7_Witness ==
    /\ pvPc = "featureMap"
    /\ ~pvUseReLU
    /\ featureMap.rawMap[0][0] < 0
    /\ featureMap.map[0][0] < 0
    /\ featureMap.rawMap[1][1] > 0
    /\ featureMap.rawMap[1][1] # -featureMap.rawMap[0][0]

(* The four activated values (numerators over the kernel's denominator).    *)
PvVals == {featureMap.map[y][x] : y, x \in 0..1}
PvValsSum == featureMap.map[0][0] + featureMap.map[0][1]
             + featureMap.map[1][0] + featureMap.map[1][1]
PvPooled == pvPc \in {"pooledValue", "flatVector", "logits", "probabilities"}

(* C12: 'max' pooling returns the largest of the four activated values,     *)
(* 'average' pooling their sum divided by four, and the average is never    *)
(* above the largest of the same four values.                               *)
C12_PoolingMaxAverage ==
    PvPooled =>
        \E m \in PvVals :
           /\ \A v \in PvVals : v <= m
           /\ pooledValue.d > 0
           /\ pvPoolingMode = "max" =>
                 pooledValue.n * pvKernel.den = m * pooledValue.d
           /\ pvPoolingMode = "average" =>
                 /\ 4 * pooledValue.n * pvKernel.den = PvValsSum * pooledValue.d
                 /\ pooledValue.n * pvKernel.den <= m * pooledValue.d

C12_Witness ==
    /\ pvPc = "pooledValue"
    /\ pvPoolingMode = "average"
    /\ Cardinality(PvVals) >= 3
    /\ \E v \in PvVals : v < 0
    /\ pooledValue.n > 0
    /\ PvValsSum % 4 # 0

PvFlat == pvPc \in {"flatVector", "logits", "probabilities"}

(* v is |255 - p|, v is p / 2, for numbers n/d.                             *)
IsAbs255Minus(v, p) ==
    /\ v.n >= 0
    /\ \/ v.n * p.d = (255 * p.d - p.n) * v.d
       \/ v.n * p.d = (p.n - 255 * p.d) * v.d
IsHalf(v, p) == 2 * v.n * p.d = p.n * v.d

(* 1.5 p - v is a whole multiple of 255.                                    *)
IsCongruent255(v, p) ==
    (3 * p.n * v.d - 2 * v.n * p.d) % (255 * 2 * p.d * v.d) = 0

(* C13, as stated: the flatten vector is [p, |255 - p|, (1.5 p) mod 255,    *)
(* p / 2] for every pooled p, negative p included, v3 being the residue of  *)
(* 1.5 p modulo 255 (the number in [0, 255) congruent to 1.5 p).            *)
C13_FlattenModulo ==
    PvFlat =>
        /\ Len(flatVector) = 4
        /\ \A i \in 1..4 : flatVector[i].d > 0
        /\ NumEq(flatVector[1], pooledValue)
        /\ IsAbs255Minus(flatVector[2], pooledValue)
        /\ IsCongruent255(flatVector[3], pooledValue)
        /\ flatVector[3].n >= 0
        /\ flatVector[3].n < 255 * flatVector[3].d
        /\ IsHalf(flatVector[4], pooledValue)

(* C13, amended: v1 = p, v2 = |255 - p|, v4 = p / 2, and v3 is the          *)
(* remainder of 1.5 p divided by 255 with the quotient truncated toward     *)
(* zero: congruent to 1.5 p, of magnitude below 255, and of the sign of p   *)
(* (negative or zero for negative p, in [0, 255) for p >= 0).               *)
C13_FlattenRemainder ==
    PvFlat =>
        /\ Len(flatVector) = 4
        /\ \A i \in 1..4 : flatVector[i].d > 0
        /\ NumEq(flatVector[1], pooledValue)
        /\ IsAbs255Minus(flatVector[2], pooledValue)
        /\ IsCongruent255(flatVector[3], pooledValue)
        /\ Abs(flatVector[3].n) < 255 * flatVector[3].d
        /\ pooledValue.n >= 0 => flatVector[3].n >= 0
        /\ pooledValue.n <= 0 => flatVector[3].n <= 0
        /\ IsHalf(flatVector[4], pooledValue)

(* A negative pooled value whose 1.5-fold lies below -255.                  *)
C13_Witness ==
    /\ pvPc = "flatVector"
    /\ ~pvUseReLU
    /\ 3 * pooledValue.n < -255 * 2 * pooledValue.d
    /\ flatVector[3].n < 0
    /\ flatVector[2].n > 255 * flatVector[2].d

(* C14: the four softmax outputs are non-negative, each at most 100, and    *)
(* their sum is 100.                                                        *)
C14_SoftmaxRange ==
    pvPc = "probabilities" =>
        /\ Len(probabilities) = 4
        /\ \A c \in 1..4 :
              /\ probabilities[c].d > 0
              /\ probabilities[c].d = probabilities[1].d
              /\ probabilities[c].n >= 0
              /\ probabilities[c].n <= 100 * probabilities[c].d
        /\ probabilities[1].n + probabilities[2].n + probabilities[3].n
             + probabilities[4].n = 100 * probabilities[1].d

(* Four different logits, one of them negative, four different outputs.     *)
C14_Witness ==
    /\ pvPc = "probabilities"
    /\ \E c \in 1..4 : logits[c].n < 0
    /\ \A c, k \in 1..4 : c # k => ~NumEq(logits[c], logits[k])
    /\ \A c, k \in 1..4 : c # k => probabilities[c].n # probabilities[k].n

Box128 ==
    /\ inputPatch = [i \in 0..3 |-> [j \in 0..3 |-> 128]]
    /\ pvKernel = PRESET_KERNELS[5].matrix
    /\ pvUseReLU

(* The number v = n/d equals the decimal t / 10.                            *)
IsTenths(v, t) == v.d > 0 /\ 10 * v.n = t * v.d

----------------------------------------------------------------------------
(* Properties of geminiService and the AI panel.                           *)

AiReturned(op) ==
    {i \in 1..Len(aiCalls) : aiCalls[i].pc = "returned" /\ aiCalls[i].op = op}

(* C17, as stated: generateKernelFromPrompt returns null or a kernel of     *)
(* three rows of three numbers each, and the kernel of App always has       *)
(* three rows of three numbers each (no other shape is ever installed).     *)
C17_OnlyThreeByThree ==
    /\ \A i \in AiReturned("generate") :
          \/ aiCalls[i].result = NullResult
          \/ /\ aiCalls[i].result.kind = "kernel"
             /\ Len(aiCalls[i].result.matrix) = 3
             /\ \A r \in 1..3 : Len(aiCalls[i].result.matrix[r]) = 3
    /\ DOMAIN kernel.w = 0..2
    /\ \A r \in DOMAIN kernel.w : DOMAIN kernel.w[r] = 0..2

FallbackTexts ==
    {"Please configure your API_KEY to get AI explanations.",
     "Unable to generate explanation.",
     "AI explanation unavailable. Please check your API key."}

(* C18: a call never ends in an exception and sends at most one request,    *)
(* none without an API key; when there is no API key, the request is        *)
(* rejected or the response text is empty, explainKernel returns one of     *)
(* its fallback sentences and generateKernelFromPrompt returns null.        *)
C18_UnavailableFallback ==
    \A i \in 1..Len(aiCalls) :
       LET c == aiCalls[i]
       IN /\ c.pc \in {"awaiting", "returned"}
          /\ c.requests <= 1
          /\ apiKey = NoKey => (c.requests = 0 /\ c.pc = "returned")
          /\ (c.pc = "returned"
              /\ (apiKey = NoKey \/ c.response.throws \/ c.response.text = "")) =>
                IF c.op = "explain"
                  THEN c.result.kind = "text" /\ c.result.text \in FallbackTexts
                  ELSE c.result = NullResult

(* With a key: a kernel request answered by an empty text while an          *)
(* explanation request is still waiting.                                    *)
C18_Witness ==
    /\ apiKey # NoKey
    /\ \E i \in AiReturned("generate") :
          /\ ~aiCalls[i].response.throws
          /\ aiCalls[i].response.text = ""
          /\ aiCalls[i].requests = 1
    /\ \E i \in 1..Len(aiCalls) : aiCalls[i].op = "explain" /\ aiCalls[i].pc = "awaiting"

----------------------------------------------------------------------------
(* Properties of the processing effect.                                    *)

(* No timer armed, no image loading, no deferred callback waiting.          *)
Quiescent == ~timer.armed /\ loading = <<>> /\ deferred = <<>>

(* patch is the 4x4 window of image img whose top-left pixel is (sx, sy).   *)
IsWindowOf(patch, img, sx, sy) ==
    /\ sx >= 0 /\ sx + 3 < img.width
    /\ sy >= 0 /\ sy + 3 < img.height
    /\ \A i, j \in 0..3 :
          LET idx == 4 * ((sy + i) * img.width + (sx + j))
          IN 2 * Abs(3 * patch[i][j]
                     - (img.data[idx] + img.data[idx + 1] + img.data[idx + 2])) <= 3

(* C19, as stated: once a hover or a completed run has set it, the selected *)
(* patch is a 4x4 matrix of integers in 0..255, each the rounded            *)
(* (R + G + B) / 3 of one pixel of a source image: the sixteen pixels of a  *)
(* 4x4 window of the image.                                                 *)
C19_PatchFromSourcePixels ==
    /\ DOMAIN selectedPatch = 0..3
    /\ \A i \in 0..3 :
          /\ DOMAIN selectedPatch[i] = 0..3
          /\ \A j \in 0..3 : selectedPatch[i][j] \in 0..255
    /\ selectedPatch # ZeroPatch =>
          \E s \in Sources :
             \E sx \in 0..(SourceImage(s).width - 1), sy \in 0..(SourceImage(s).height - 1) :
                IsWindowOf(selectedPatch, SourceImage(s), sx, sy)

(* The run that has just been started by a step, if the step started one.   *)
RunStarted == Len(loading') = Len(loading) + 1

(* C20: a change of imageSrc, kernel or options made while the timer is     *)
(* armed replaces that timer (one timer at most, holding the new values,    *)
(* and no run starts at the change); a run starts only when the timer       *)
(* fires, with the values of the latest change, and disarms the timer, so   *)
(* the run of a superseded timer never starts.                              *)
C20_Debounce ==
    [][/\ (<<imageSrc, kernel, options>>' # <<imageSrc, kernel, options>>) =>
             /\ timer'.armed
             /\ timer'.imageSrc = imageSrc'
             /\ timer'.kernel = kernel'
             /\ timer'.options = options'
             /\ loading' = loading
       /\ RunStarted =>
             /\ timer.armed
             /\ ~timer'.armed
             /\ loading'[Len(loading')] = [imageSrc |-> imageSrc, kernel |-> kernel,
                                           options |-> options]
             /\ <<imageSrc, kernel, options>>' = <<imageSrc, kernel, options>>
      ]_vars

(* A burst of two changes (kernel, then options) before any timer fired,    *)
(* then one run started: the only run there has been.                       *)
C20_Witness ==
    /\ changes = 2
    /\ kernel # PRESET_KERNELS[1].matrix
    /\ options # DEFAULT_OPTIONS
    /\ ~timer.armed
    /\ Len(loading) = 1
    /\ loading[1].kernel = kernel
    /\ loading[1].options = options
    /\ deferred = <<>>
    /\ processedImageData = NoImage
    /\ isProcessing

(* C1, as stated: once every pending callback has run, the reported         *)
(* processed image is the convolution of the most recently set image,       *)
(* kernel and options.                                                      *)
C1_LatestInputsReported ==
    Quiescent =>
        processedImageData = applyConvolution(SourceImage(imageSrc), kernel, options)

----
(* Properties of the AI panel against the rest of App.                     *)

FailureMessage == "Failed to generate kernel. Please try a different description."

(* The step is the continuation of a handleAiGenerate call whose            *)
(* generateKernelFromPrompt returned null.                                  *)
FailedGenerateResumes ==
    \E i \in 1..Len(aiCalls) :
        /\ aiCalls[i].op = "generate"
        /\ aiCalls[i].pc = "returned"
        /\ aiCalls[i].result.kind = "null"
        /\ aiCalls' = RemoveAt(aiCalls, i)

(* The step starts a handleAiGenerate call.                                 *)
GenerateStarts ==
    /\ Len(aiCalls') = Len(aiCalls) + 1
    /\ aiCalls'[Len(aiCalls')].op = "generate"

(* C21: when generateKernelFromPrompt returned null, the continuation of    *)
(* handleAiGenerate leaves kernel, options, poolingMode and                 *)
(* processedImageData as they are, sets the explanation to the failure      *)
(* message and aiLoading to false; while the prompt is empty or only        *)
(* whitespace no generate call starts, no request is sent and the           *)
(* explanation does not become "Generating kernel...".                      *)
C21_FailedGenerationFrame ==
    [][/\ FailedGenerateResumes =>
             /\ <<kernel, kernelRef, options, poolingMode, processedImageData>>'
                  = <<kernel, kernelRef, options, poolingMode, processedImageData>>
             /\ timer' = timer
             /\ explanation' = FailureMessage
             /\ aiLoading' = FALSE
       /\ aiPrompt \in {"", "   "} =>
             /\ ~GenerateStarts
             /\ explanation' = "Generating kernel..." => explanation = "Generating kernel..."
      ]_vars

(* A generation failed after the user had chosen another preset; the        *)
(* prompt has since been blanked.                                           *)
C21_Witness ==
    /\ explanation = FailureMessage
    /\ ~aiLoading
    /\ aiCalls = <<>>
    /\ kernelRef = 3
    /\ aiPrompt = "   "

----
(* Properties of the kernel editor.                                        *)

Is3x3(kern) ==
    /\ DOMAIN kern.w = 0..2
    /\ \A r \in 0..2 : DOMAIN kern.w[r] = 0..2

OriginalPresets == [i \in 1..Len(PRESET_KERNELS) |-> PRESET_KERNELS[i].matrix]

(* C22: a numeric edit of cell (row, col) hands onChange a new array that   *)
(* is a 3x3 kernel, holds the typed number in that cell and the current     *)
(* kernel's weights everywhere else; a value that parses to NaN changes     *)
(* neither the kernel nor the explanation and starts nothing; no step       *)
(* changes a matrix of PRESET_KERNELS, and selecting a preset installs its  *)
(* original weights.                                                        *)
C22_EditCopyOnWrite ==
    [][/\ \A c \in EditCells :
             /\ handleChange(c[1], c[2], "2") =>
                   /\ kernelRef' = 0
                   /\ Is3x3(kernel')
                   /\ \A r, k \in 0..2 :
                         kernel'.w[r][k] = IF <<r, k>> = c THEN 2 * kernel.den
                                           ELSE kernel.w[r][k]
             /\ handleChange(c[1], c[2], "") =>
                   UNCHANGED <<kernel, kernelRef, explanation, timer, loading>>
       /\ presetKernels' = OriginalPresets
       /\ \A i \in 1..Len(PRESET_KERNELS) :
             handlePresetChange(i) => kernel' = PRESET_KERNELS[i].matrix
      ]_vars

----
(* Properties of the processing indicator and of the shared canvas.        *)

(* C23: while some started processing run has not stored its result (its   *)
(* image is loading or its 10 ms callback is pending), isProcessing is      *)
(* true.                                                                    *)
C23_IndicatorWhilePending ==
    (loading # <<>> \/ deferred # <<>>) => isProcessing


(* C24: the patch a run's 10 ms callback stores is the 4x4 window at        *)
(* (floor(w/2) - 1, floor(h/2) - 1) of the image data this run drew and     *)
(* convolved, whatever other callbacks ran since its draw.                  *)
C24_PatchFromOwnImage ==
    [][(deferred # <<>> /\ deferred' = Tail(deferred)) =>
          LET run == Head(deferred)
          IN /\ processedImageData'
                  = applyConvolution(run.imageData, run.kernel, run.options)
             /\ selectedPatch'
                  = PatchFromCanvas(run.imageData, run.w \div 2 - 1, run.h \div 2 - 1)
      ]_vars

----
(* Properties of AI responses that arrive after a kernel change.           *)

(* The step is the continuation of call i, and the kernel has been changed  *)
(* since the call was made.                                                 *)
LateResume(i) ==
    /\ aiCalls[i].pc = "returned"
    /\ aiCalls' = RemoveAt(aiCalls, i)
    /\ aiCalls[i].kernel # kernel

(* Call i obtained a text that explains the kernel it was made for.         *)
ExplainedItsKernel(i) ==
    /\ aiCalls[i].op = "explain"
    /\ ~aiCalls[i].response.throws
    /\ aiCalls[i].response.text # ""

(* C25: when the kernel was changed while call i was in flight, the         *)
(* continuation of call i leaves the kernel as it is and does not show the  *)
(* explanation that was written for the kernel of the call.                 *)
C25_LateResponseKeepsKernel ==
    [][\A i \in 1..Len(aiCalls) :
          LateResume(i) =>
             /\ kernel' = kernel
             /\ ExplainedItsKernel(i) => explanation' # aiCalls[i].result.text
      ]_vars

----
(* Properties of the view controls.                                        *)

(* The step is a pooling toggle, a view switch, an AI panel toggle or a     *)
(* patch selection by hover (a new patch that no 10 ms callback stored).    *)
ViewStep ==
    \/ poolingMode' # poolingMode
    \/ viewMode' # viewMode
    \/ showAiPanel' # showAiPanel
    \/ selectedPatch' # selectedPatch /\ deferred' = deferred

(* The step re-runs the processing effect: a timer is armed.                *)
EffectRuns == timer'.armed /\ timer' # timer

(* C26: a step that changes poolingMode, viewMode, showAiPanel or selects   *)
(* a patch by hover leaves processedImageData, kernel and options as they   *)
(* are, arms no timer and starts no run; a timer is armed only in a step    *)
(* that sets a new imageSrc, new options or another kernel array (other     *)
(* weights, another preset's array, or the new array of a cell edit);       *)
(* poolingMode is always 'max' or 'average' and a toggle goes from one to   *)
(* the other.                                                               *)
C26_ViewControlsFrame ==
    [][/\ ViewStep =>
             /\ UNCHANGED <<processedImageData, kernel, kernelRef, options>>
             /\ UNCHANGED <<timer, loading, deferred, isProcessing>>
       /\ EffectRuns =>
             \/ imageSrc' # imageSrc
             \/ options' # options
             \/ kernel' # kernel
             \/ kernelRef' # kernelRef
             \/ kernelRef' = 0 /\ explanation' = "Custom kernel configuration."
       /\ RunStarted => timer.armed
       /\ poolingMode \in {"max", "average"}
       /\ poolingMode' \in {"max", "average"}
       /\ poolingMode' # poolingMode => {poolingMode, poolingMode'} = {"max", "average"}
      ]_vars

(* The pooling mode has been toggled and a patch has been selected by       *)
(* hover before the first timer fired: that timer is still the one of the   *)
(* mount and no run has started.                                            *)
C26_Witness ==
    /\ poolingMode = "average"
    /\ selectedPatch # ZeroPatch
    /\ changes = 2
    /\ timer = [armed |-> TRUE, imageSrc |-> DEFAULT_IMAGE_URL,
                kernel |-> PRESET_KERNELS[1].matrix, options |-> DEFAULT_OPTIONS]
    /\ loading = <<>>
    /\ deferred = <<>>
    /\ processedImageData = NoImage
    /\ ~isProcessing

----
(* Properties of the patch pipeline with ReLU.                             *)

(* C27: with useReLU = true and pooling 'max' or 'average', the pooled      *)
(* value is not negative, the four flatten values are not negative, and     *)
(* v3 is below 255.                                                         *)
C27_ReLUNonNegative ==
    (pvUseReLU /\ pvPoolingMode \in {"max", "average"}) =>
        /\ PvPooled =>
              /\ pooledValue.d > 0
              /\ pooledValue.n >= 0
        /\ PvFlat =>
              /\ \A i \in 1..4 : flatVector[i].d > 0 /\ flatVector[i].n >= 0
              /\ flatVector[3].n < 255 * flatVector[3].d

(* ReLU has clipped a negative sum, the pooled value is above 255 (so       *)
(* v2 = p - 255) and 1.5 p has been reduced below 255.                      *)
C27_Witness ==
    /\ pvPc = "flatVector"
    /\ pvUseReLU
    /\ pvPoolingMode = "average"
    /\ \E y, x \in 0..1 : featureMap.rawMap[y][x] < 0 /\ featureMap.map[y][x] = 0
    /\ pooledValue.n > 255 * pooledValue.d
    /\ ~NumEq(flatVector[3], [n |-> 3 * pooledValue.n, d |-> 2 * pooledValue.d])

----
(* Properties of the patch selection by hover.                             *)

(* Pixel (x, y) may select a patch on a canvas of this width and height.    *)
HoverSelects(canvas, x, y) ==
    /\ 1 <= x /\ x < canvas.width - 2
    /\ 1 <= y /\ y < canvas.height - 2

(* C28: a hover at canvas pixel (x, y) of the interactive display with      *)
(* 1 <= x < width - 2 and 1 <= y < height - 2 selects the 4x4 block whose   *)
(* top-left pixel is (x - 1, y - 1): the block lies inside the canvas and   *)
(* patch[i][j] is the rounded (R + G + B) / 3 of the pixel in column        *)
(* x - 1 + j and row y - 1 + i (0 on a canvas nothing has been drawn on);   *)
(* any other hover, and any hover on the display that is not interactive,   *)
(* leaves the selected patch as it is.                                      *)
C28_HoverBounds ==
    [][\A d \in Displays : \A x, y \in 0..MaxMouse :
          handleMouseMove(d, x, y) =>
             IF d = "input" /\ HoverSelects(displayCanvas, x, y)
               THEN /\ x - 1 >= 0 /\ x + 2 <= displayCanvas.width - 1
                    /\ y - 1 >= 0 /\ y + 2 <= displayCanvas.height - 1
                    /\ IF displayCanvas.data = EmptyBuffer
                         THEN selectedPatch' = ZeroPatch
                         ELSE IsWindowOf(selectedPatch', displayCanvas, x - 1, y - 1)
               ELSE selectedPatch' = selectedPatch
      ]_vars

(* The uploaded 4x4 image is shown and a hover at (1, 1), the only pixel    *)
(* that may select a patch on it, has selected the whole image; no run has  *)
(* completed.                                                               *)
C28_Witness ==
    /\ displayCanvas = SourceImage(UPLOADED_URL)
    /\ changes = 2
    /\ imageSrc = UPLOADED_URL
    /\ IsWindowOf(selectedPatch, displayCanvas, 0, 0)
    /\ processedImageData = NoImage

====
